---- MODULE Spec2Model ----
(***************************************************************************)
(* Printer discovery and transmission layer of the desktop shell          *)
(* (frontend/src-tauri/src/main.rs), Windows build.                        *)
(*                                                                         *)
(* Strings are sequences of tokens; a token is a run of characters that    *)
(* the code never splits (a word, a comma, a double quote).  Substring     *)
(* search on a string is token search on the sequence.                     *)
(***************************************************************************)
EXTENDS Integers, Sequences, FiniteSets, TLC

\* ---------------------------------------------------------------- bounds
MaxLen == 2          \* longest ticket payload, in bytes
MaxPrinters == 2     \* most printers in the OS registry
MaxTime == 1         \* last millisecond the system clock reaches

\* ------------------------------------------------------------ input sets
Bytes == {65, 66}
Names == { <<"TM">>, <<"EPSON", "TM">>, <<"Receipt">>, <<"TM", ",", "X">>,
           <<"TM", ",", "X", ",", "USB">> }
Ports == { <<"USB", "001">>, <<"COM", "1">>, <<"LPT", "1">> , <<"USB", "COM">> }
SerialNames == {"COM1", "COM3", "COM7"}
ErrCodes == {5, 1801}

RECURSIVE SeqsUpTo(_, _)
SeqsUpTo(S, n) ==
    IF n = 0 THEN { <<>> }
    ELSE LET shorter == SeqsUpTo(S, n - 1)
         IN  shorter \cup { Append(s, x) : s \in shorter, x \in S }

Payloads == SeqsUpTo(Bytes, MaxLen)
Printers == [name : Names, port : Ports]
Registries == { r \in SUBSET Printers : Cardinality(r) <= MaxPrinters }

Callers == {1, 2}    \* the print_ticket_raw calls that can be in flight together
RawTickets == { <<65>>, <<66>> }
RawPrinters == { <<"TM">>, <<"EPSON", "TM">> }
SerialErrors == {"NoDevice", "Io"}
StderrTexts == {"", "Out-Printer : invalid printer"}

VARIABLES
    registry,   \* OS printer registry: set of [name, port]
    serial,     \* serial devices present on the system
    pt,         \* the print_ticket call: locals, spooler calls made, result
    probe,      \* the test_printer_connection call
    listed,     \* what each listing command returned last
    raw,        \* the print_ticket_raw calls, one per caller
    tempDir,    \* whether the directory "temp" exists
    files,      \* content of temp/ticket_<ms>.txt for each ms, or NoFile
    clock       \* SystemTime::now() in milliseconds

vars == <<registry, serial, pt, probe, listed, raw, tempDir, files, clock>>

\* ------------------------------------------------------------ print_ticket
PtIdle == [pc |-> "idle", data |-> <<>>, name |-> <<>>, handle |-> "invalid",
           trace |-> <<>>, req |-> 0, written |-> 0, ret |-> [kind |-> "none"]]

Registered(name) == \E p \in registry : p.name = name

\* Cleanup with the close forgotten on the start-page error path
CleanupLeak(step) ==
    CASE step = "OpenPrinterW"     -> <<>>
      [] step = "StartDocPrinterW" -> <<"ClosePrinter">>
      [] step = "StartPagePrinter" -> <<"EndDocPrinter">>
      [] step = "WritePrinter"     -> <<"EndPagePrinter", "EndDocPrinter", "ClosePrinter">>
      [] step = "EndPagePrinter"   -> <<"EndDocPrinter", "ClosePrinter">>
      [] step = "EndDocPrinter"    -> <<"ClosePrinter">>

\* the spooler calls issued on the error path of a failed step, in order
Cleanup(step) ==
    CASE step = "OpenPrinterW"     -> <<>>
      [] step = "StartDocPrinterW" -> <<"ClosePrinter">>
      [] step = "StartPagePrinter" -> <<"EndDocPrinter", "ClosePrinter">>
      [] step = "WritePrinter"     -> <<"EndPagePrinter", "EndDocPrinter", "ClosePrinter">>
      [] step = "EndPagePrinter"   -> <<"EndDocPrinter", "ClosePrinter">>
      [] step = "EndDocPrinter"    -> <<"ClosePrinter">>

\* AfterStep with the early return forgotten
AfterStepContinue(step, ok, nxt) == nxt

\* AfterStep with a failed step tried again
AfterStepRetry(step, ok, nxt) == IF ok THEN nxt ELSE step

\* AfterStep with the page never started
AfterStepSkip(step, ok, nxt) ==
    IF ok THEN (IF step = "StartDocPrinterW" THEN "WritePrinter" ELSE nxt) ELSE "done"

\* where a tested step goes: on to the next step, or out of the function
AfterStep(step, ok, nxt) == IF ok THEN nxt ELSE "done"

\* the Err(format!(...)) of a failed step: the step's text and GetLastError()
StepError(step, code) == [kind |-> "err", step |-> step, code |-> code]

\* calls whose return value the code does not look at
Unchecked(ops) == [i \in 1..Len(ops) |-> [op |-> ops[i], res |-> "ignored", code |-> 0]]

HandleAfter(h, ops) ==
    IF \E i \in 1..Len(ops) : ops[i] = "ClosePrinter" THEN "closed" ELSE h

\* the locals after one spooler call whose return value the code tests against 0
Call(step, ok, code, nxt) ==
    IF ok
    THEN [pt EXCEPT
            !.trace = Append(@, [op |-> step, res |-> "ok", code |-> 0]),
            !.handle = IF step = "OpenPrinterW" THEN "open" ELSE @,
            !.pc = AfterStep(step, TRUE, nxt)]
    ELSE [pt EXCEPT
            !.trace = Append(@, [op |-> step, res |-> "fail", code |-> code])
                      \o Unchecked(Cleanup(step)),
            !.handle = HandleAfter(@, Cleanup(step)),
            !.pc = AfterStep(step, FALSE, nxt),
            !.ret = IF AfterStep(step, FALSE, nxt) = "done"
                    THEN StepError(step, code) ELSE @]

Checked(step, ok, code, nxt) ==
    /\ pt.pc = step
    /\ pt' = Call(step, ok, code, nxt)
    /\ UNCHANGED <<registry, serial, probe, listed, raw, tempDir, files, clock>>

PrintTicket(data, name) ==
    /\ pt.pc \in {"idle", "done"}
    /\ pt' = [PtIdle EXCEPT !.pc = "OpenPrinterW", !.data = data, !.name = name]
    /\ UNCHANGED <<registry, serial, probe, listed, raw, tempDir, files, clock>>

\* a name the registry does not hold cannot be opened; one it holds may still fail
OpenPrinterW ==
    \E ok \in BOOLEAN, code \in ErrCodes :
        /\ ok => Registered(pt.name)
        /\ Checked("OpenPrinterW", ok, code, "StartDocPrinterW")

StartDocPrinterW ==
    \E ok \in BOOLEAN, code \in ErrCodes :
        Checked("StartDocPrinterW", ok, code, "StartPagePrinter")

StartPagePrinter ==
    \E ok \in BOOLEAN, code \in ErrCodes :
        Checked("StartPagePrinter", ok, code, "WritePrinter")

\* ticket_bytes.len() as u32 is the length itself for every length below 2^32;
\* the spooler reports any count up to the request in bytes_written
WritePrinter ==
    \E ok \in BOOLEAN, code \in ErrCodes, n \in 0..Len(pt.data) :
        /\ pt.pc = "WritePrinter"
        /\ pt' = [Call("WritePrinter", ok, code, "EndPagePrinter") EXCEPT
                    !.req = Len(pt.data), !.written = n]
        /\ UNCHANGED <<registry, serial, probe, listed, raw, tempDir, files, clock>>

EndPagePrinter ==
    \E ok \in BOOLEAN, code \in ErrCodes :
        Checked("EndPagePrinter", ok, code, "EndDocPrinter")

EndDocPrinter ==
    \E ok \in BOOLEAN, code \in ErrCodes :
        Checked("EndDocPrinter", ok, code, "ClosePrinter")

ClosePrinter ==
    /\ pt.pc = "ClosePrinter"
    /\ pt' = [pt EXCEPT !.trace = Append(@, [op |-> "ClosePrinter", res |-> "ignored", code |-> 0]),
                        !.handle = "closed",
                        !.pc = "done",
                        !.ret = [kind |-> "ok"]]
    /\ UNCHANGED <<registry, serial, probe, listed, raw, tempDir, files, clock>>

NextPrint ==
    \/ \E data \in Payloads, name \in Names : PrintTicket(data, name)
    \/ OpenPrinterW
    \/ StartDocPrinterW
    \/ StartPagePrinter
    \/ WritePrinter
    \/ EndPagePrinter
    \/ EndDocPrinter
    \/ ClosePrinter

\* ------------------------------------------------- test_printer_connection
ProbeIdle == [pc |-> "idle", port |-> "", res |-> "none", handle |-> "none",
              ops |-> <<>>, ret |-> [kind |-> "none"]]

\* the value of the arm `match port_result` takes
MatchPortResult(res, port) ==
    IF res = "ok"
    THEN [kind |-> "ok", value |-> TRUE]
    ELSE [kind |-> "err",
          msg |-> <<"Failed to connect to printer on port ", port, ": ", res>>]

\* DropPort with the port kept alive past the arm
DropPortLeak(h) == h

\* `_port` is dropped where the Ok arm ends; dropping a serial port closes it
DropPort(h) == IF h = "open" THEN "released" ELSE h

TestPrinterConnection(port) ==
    /\ probe.pc \in {"idle", "done"}
    /\ probe' = [ProbeIdle EXCEPT !.pc = "open", !.port = port]
    /\ UNCHANGED <<registry, serial, pt, listed, raw, tempDir, files, clock>>

\* serialport::new(..).open(): a device that is absent cannot be opened,
\* one that is present may still be refused
SerialOpen ==
    /\ probe.pc = "open"
    /\ \E res \in {"ok"} \cup SerialErrors :
         /\ res = "ok" => probe.port \in serial
         /\ probe' = [probe EXCEPT !.res = res,
                                   !.handle = IF res = "ok" THEN "open" ELSE "none",
                                   !.ops = Append(@, "open"),
                                   !.pc = "match"]
    /\ UNCHANGED <<registry, serial, pt, listed, raw, tempDir, files, clock>>

ProbeMatch ==
    /\ probe.pc = "match"
    /\ probe' = [probe EXCEPT !.ret = MatchPortResult(probe.res, probe.port),
                              !.handle = DropPort(@),
                              !.ops = IF DropPort(probe.handle) # probe.handle
                                      THEN Append(@, "close") ELSE @,
                              !.pc = "done"]
    /\ UNCHANGED <<registry, serial, pt, listed, raw, tempDir, files, clock>>

NextProbe ==
    \/ \E port \in SerialNames : TestPrinterConnection(port)
    \/ SerialOpen
    \/ ProbeMatch

\* ------------------------------------------------------- listing commands
Q == "\""
ListOps == {"list_printers", "list_usb_printers", "list_all_printers", "list_com_printers"}
NotListed == [called |-> FALSE, failed |-> FALSE, items |-> <<>>]

RECURSIVE SetToSeq(_)
SetToSeq(S) ==
    IF S = {} THEN <<>>
    ELSE LET x == CHOOSE y \in S : TRUE IN <<x>> \o SetToSeq(S \ {x})

\* PowerShell's -like is case-insensitive
Lower(t) ==
    CASE t = "USB" -> "usb" [] t = "COM" -> "com" [] t = "EPSON" -> "epson"
      [] t = "Receipt" -> "receipt" [] t = "TM" -> "tm" [] t = "LPT" -> "lpt"
      [] OTHER -> t

\* s -like '*pat*'
Like(s, pat) == \E i \in 1..Len(s) : Lower(s[i]) = pat

\* UsbFilter with the Where-Object clause left out
UsbFilterAll(p) == TRUE

\* the Where-Object clause of list_usb_printers
UsbFilter(p) ==
    \/ Like(p.port, "usb") \/ Like(p.name, "usb")
    \/ Like(p.name, "epson") \/ Like(p.name, "receipt")

\* the Where-Object clause of list_com_printers
ComFilter(p) == Like(p.port, "com")

\* ConvertTo-Csv -NoTypeInformation: every field quoted, embedded quotes doubled,
\* a header line first; no input object, no output at all
RECURSIVE CsvEscape(_)
CsvEscape(s) ==
    IF s = <<>> THEN <<>>
    ELSE (IF Head(s) = Q THEN <<Q, Q>> ELSE <<Head(s)>>) \o CsvEscape(Tail(s))

CsvField(s) == <<Q>> \o CsvEscape(s) \o <<Q>>

CsvNamePort(printers) ==
    IF printers = <<>> THEN <<>>
    ELSE << CsvField(<<"Name">>) \o <<",">> \o CsvField(<<"PortName">>) >>
         \o [i \in 1..Len(printers) |->
               CsvField(printers[i].name) \o <<",">> \o CsvField(printers[i].port)]

CsvName(printers) ==
    IF printers = <<>> THEN <<>>
    ELSE << CsvField(<<"Name">>) >>
         \o [i \in 1..Len(printers) |-> CsvField(printers[i].name)]

\* Get-Printer | Where-Object {..}: the registered printers the clause keeps
GetPrinter(kept) == SetToSeq(registry \cap kept)

\* str::split(',')
RECURSIVE Split(_)
Split(s) ==
    IF \A i \in 1..Len(s) : s[i] # "," THEN <<s>>
    ELSE LET i == CHOOSE k \in 1..Len(s) :
                      s[k] = "," /\ \A j \in 1..(k - 1) : s[j] # ","
         IN  <<SubSeq(s, 1, i - 1)>> \o Split(SubSeq(s, i + 1, Len(s)))

\* str::trim_matches(c) and str::trim()
RECURSIVE TrimStart(_, _)
TrimStart(s, cs) ==
    IF s # <<>> /\ Head(s) \in cs THEN TrimStart(Tail(s), cs) ELSE s

RECURSIVE TrimEnd(_, _)
TrimEnd(s, cs) ==
    IF s # <<>> /\ s[Len(s)] \in cs THEN TrimEnd(SubSeq(s, 1, Len(s) - 1), cs) ELSE s

TrimMatches(s, c) == TrimEnd(TrimStart(s, {c}), {c})
Trim(s) == TrimEnd(TrimStart(s, {" "}), {" "})

\* format!("{} ({})", printer_name, port_name)
FormatEntry(name, port) == name \o <<" (">> \o port \o <<")">>

\* the loop over the lines of stdout in list_usb_printers and list_com_printers
RECURSIVE ParseNamePort(_)
ParseNamePort(lines) ==
    IF lines = <<>> THEN <<>>
    ELSE LET line == Head(lines)
             parts == Split(line)
             keep == /\ Trim(line) # <<>>
                     /\ Len(parts) >= 2
                     /\ Trim(TrimMatches(parts[1], Q)) # <<>>
         IN  (IF keep
              THEN << FormatEntry(TrimMatches(parts[1], Q), TrimMatches(parts[2], Q)) >>
              ELSE <<>>)
             \o ParseNamePort(Tail(lines))

\* the loop over the lines of stdout in list_all_printers
RECURSIVE ParseName(_)
ParseName(lines) ==
    IF lines = <<>> THEN <<>>
    ELSE LET line == Head(lines)
             keep == Trim(line) # <<>> /\ Trim(TrimMatches(line, Q)) # <<>>
         IN  (IF keep THEN << TrimMatches(line, Q) >> ELSE <<>>)
             \o ParseName(Tail(lines))

\* lines.iter().skip(1)
Skip1(lines) == IF lines = <<>> THEN <<>> ELSE Tail(lines)

\* QueryFailed with the error text returned as an entry
QueryFailedEntry(e) == <<e>>

\* the vec![] of every Err arm
QueryFailed(e) == <<>>

\* what the PowerShell child wrote to stdout: nothing when its pipeline failed
Stdout(outcome, csv) == IF outcome = "ok" THEN csv ELSE <<>>

PsOutcomes == {"spawn_err", "ps_error", "ok"}

Listed(op, outcome, items) ==
    /\ listed' = [listed EXCEPT ![op] = [called |-> TRUE, failed |-> outcome # "ok",
                                         items |-> items]]
    /\ UNCHANGED <<registry, serial, pt, probe, raw, tempDir, files, clock>>

ListPrinters ==
    \E outcome \in {"err", "ok"} :
        Listed("list_printers", outcome,
               IF outcome = "ok" THEN SetToSeq(serial) ELSE QueryFailed(outcome))

ListUsbPrinters ==
    \E outcome \in PsOutcomes :
        Listed("list_usb_printers", outcome,
               IF outcome = "spawn_err" THEN QueryFailed(outcome)
               ELSE ParseNamePort(Skip1(Stdout(outcome, CsvNamePort(GetPrinter({ p \in Printers : UsbFilter(p) }))))))

ListAllPrinters ==
    \E outcome \in PsOutcomes :
        Listed("list_all_printers", outcome,
               IF outcome = "spawn_err" THEN QueryFailed(outcome)
               ELSE ParseName(Skip1(Stdout(outcome, CsvName(GetPrinter(Printers))))))

ListComPrinters ==
    \E outcome \in PsOutcomes :
        Listed("list_com_printers", outcome,
               IF outcome = "spawn_err" THEN QueryFailed(outcome)
               ELSE ParseNamePort(Skip1(Stdout(outcome, CsvNamePort(GetPrinter({ p \in Printers : ComFilter(p) }))))))

NextList ==
    \/ ListPrinters
    \/ ListUsbPrinters
    \/ ListAllPrinters
    \/ ListComPrinters

\* -------------------------------------------------------- print_ticket_raw
Absent == [exists |-> FALSE, content |-> <<>>]
RawIdle == [pc |-> "idle", data |-> <<>>, printer |-> <<>>, file |-> 0,
            created |-> FALSE, out |-> "none", stderr |-> "", sent |-> <<>>,
            ops |-> <<>>,
            ret |-> [kind |-> "none"]]

Prefixes(d) == { SubSeq(d, 1, n) : n \in 0..(Len(d) - 1) }

\* MatchOutput with the exit status never looked at
MatchOutputAnyExit(out, stderr) ==
    CASE out = "exit_zero"    -> [kind |-> "ok"]
      [] out = "exit_nonzero" -> [kind |-> "ok"]
      [] out = "spawn_err"    -> [kind |-> "err",
                                  msg |-> <<"Failed to execute print command: ", "os error">>]

\* the value of `match output`: output.status.success(), else the captured
\* stderr in the text, else the error of the launch
MatchOutput(out, stderr) ==
    CASE out = "exit_zero"    -> [kind |-> "ok"]
      [] out = "exit_nonzero" -> [kind |-> "err", msg |-> <<"Printing failed: ", stderr>>]
      [] out = "spawn_err"    -> [kind |-> "err",
                                  msg |-> <<"Failed to execute print command: ", "os error">>]

\* the millisecond timestamp in format!("ticket_{}.txt", ..as_millis())
TempFileName(c, now) == now

PrintTicketRaw(c, data, printer) ==
    /\ raw[c].pc \in {"idle", "done"}
    /\ raw' = [raw EXCEPT ![c] = [RawIdle EXCEPT !.pc = "exists", !.data = data,
                                                 !.printer = printer]]
    /\ UNCHANGED <<registry, serial, pt, probe, listed, tempDir, files, clock>>

\* if !temp_dir.exists()
RawDirExists(c) ==
    /\ raw[c].pc = "exists"
    /\ raw' = [raw EXCEPT ![c].pc = IF tempDir THEN "name" ELSE "create_dir"]
    /\ UNCHANGED <<registry, serial, pt, probe, listed, tempDir, files, clock>>

\* fs::create_dir(temp_dir)?: fails when the directory appeared meanwhile
RawCreateDir(c) ==
    /\ raw[c].pc = "create_dir"
    /\ \E ok \in BOOLEAN :
         /\ ok => ~tempDir
         /\ tempDir' = (tempDir \/ ok)
         /\ raw' = [raw EXCEPT
                      ![c].ops = Append(@, "create_dir"),
                      ![c].pc = IF ok THEN "name" ELSE "done",
                      ![c].ret = IF ok THEN @
                                 ELSE [kind |-> "err", msg |-> "Failed to create temp directory"]]
    /\ UNCHANGED <<registry, serial, pt, probe, listed, files, clock>>

RawTempName(c) ==
    /\ raw[c].pc = "name"
    /\ raw' = [raw EXCEPT ![c].file = TempFileName(c, clock), ![c].pc = "write"]
    /\ UNCHANGED <<registry, serial, pt, probe, listed, tempDir, files, clock>>

\* fs::write(&temp_file, ticket_data)?: creates or truncates the file, then
\* writes; it can fail before the file exists or after part of it is written
RawWrite(c) ==
    /\ raw[c].pc = "write"
    /\ \/ /\ files' = [files EXCEPT ![raw[c].file] = [exists |-> TRUE, content |-> raw[c].data]]
          /\ raw' = [raw EXCEPT ![c].ops = Append(@, "write"), ![c].created = TRUE,
                                ![c].pc = "shell"]
       \/ /\ files' = files
          /\ raw' = [raw EXCEPT ![c].ops = Append(@, "write"), ![c].pc = "done",
                                ![c].ret = [kind |-> "err", msg |-> "Failed to write temp file"]]
       \/ \E part \in Prefixes(raw[c].data) :
          /\ files' = [files EXCEPT ![raw[c].file] = [exists |-> TRUE, content |-> part]]
          /\ raw' = [raw EXCEPT ![c].ops = Append(@, "write"), ![c].created = TRUE,
                                ![c].pc = "done",
                                ![c].ret = [kind |-> "err", msg |-> "Failed to write temp file"]]
    /\ UNCHANGED <<registry, serial, pt, probe, listed, tempDir, clock>>

\* Command::new("powershell")..output(): Get-Content of the file piped to
\* Out-Printer; the job holds what the file holds when the shell reads it
RawShell(c) ==
    /\ raw[c].pc = "shell"
    /\ \E out \in {"spawn_err", "exit_nonzero", "exit_zero"}, stderr \in StderrTexts :
         /\ out = "exit_zero" => files[raw[c].file].exists
         /\ out = "spawn_err" => stderr = ""
         /\ raw' = [raw EXCEPT
                      ![c].ops = Append(@, "powershell"),
                      ![c].out = out,
                      ![c].stderr = stderr,
                      ![c].sent = IF out = "exit_zero"
                                  THEN <<files[raw[c].file].content>> ELSE <<>>,
                      ![c].pc = "remove"]
    /\ UNCHANGED <<registry, serial, pt, probe, listed, tempDir, files, clock>>

\* let _ = fs::remove_file(temp_file): the outcome is dropped
RawRemove(c) ==
    /\ raw[c].pc = "remove"
    /\ \E ok \in BOOLEAN :
         /\ ok => files[raw[c].file].exists
         /\ files' = IF ok THEN [files EXCEPT ![raw[c].file] = Absent] ELSE files
         /\ raw' = [raw EXCEPT ![c].ops = Append(@, "remove_file"), ![c].pc = "match"]
    /\ UNCHANGED <<registry, serial, pt, probe, listed, tempDir, clock>>

RawMatch(c) ==
    /\ raw[c].pc = "match"
    /\ raw' = [raw EXCEPT ![c].ret = MatchOutput(raw[c].out, raw[c].stderr),
                          ![c].pc = "done"]
    /\ UNCHANGED <<registry, serial, pt, probe, listed, tempDir, files, clock>>

\* the system clock moves on
Tick ==
    /\ clock < MaxTime
    /\ clock' = clock + 1
    /\ UNCHANGED <<registry, serial, pt, probe, listed, raw, tempDir, files>>

NextRawOf(c) ==
    \/ \E data \in RawTickets, printer \in RawPrinters : PrintTicketRaw(c, data, printer)
    \/ RawDirExists(c)
    \/ RawCreateDir(c)
    \/ RawTempName(c)
    \/ RawWrite(c)
    \/ RawShell(c)
    \/ RawRemove(c)
    \/ RawMatch(c)

NextRaw ==
    \/ \E c \in Callers : NextRawOf(c)
    \/ Tick

\* --------------------------------------------------------------- initial
Init ==
    /\ registry \in Registries
    /\ serial \in SUBSET SerialNames
    /\ pt = PtIdle
    /\ probe = ProbeIdle
    /\ listed = [op \in ListOps |-> NotListed]
    /\ raw = [c \in Callers |-> RawIdle]
    /\ tempDir \in BOOLEAN
    /\ files = [t \in 0..MaxTime |-> Absent]
    /\ clock = 0

\* print_ticket reads the registry only to find one name in it
InitPrint == Init /\ serial = {} /\ tempDir = FALSE /\ Cardinality(registry) <= 1
InitProbe == Init /\ registry = {} /\ tempDir = FALSE
InitList == Init /\ tempDir = FALSE /\ serial \subseteq {"COM1"}
InitRaw == Init /\ registry = {} /\ serial = {}
InitCommands == Init /\ Cardinality(registry) <= 1 /\ serial \subseteq {"COM1"}

\* the commands of a behaviour all belong to one of print_ticket,
\* print_ticket_raw and test_printer_connection
PrintQuiet == pt = PtIdle
RawQuiet == raw = [c \in Callers |-> RawIdle] /\ clock = 0
ProbeQuiet == probe = ProbeIdle

PrintCommands == RawQuiet /\ ProbeQuiet /\ NextPrint
RawCommands == PrintQuiet /\ ProbeQuiet /\ (NextRawOf(1) \/ Tick)
ProbeCommands == PrintQuiet /\ RawQuiet /\ NextProbe

NextCommands ==
    \/ PrintCommands
    \/ RawCommands
    \/ ProbeCommands

SpecPrint == InitPrint /\ [][NextPrint]_vars
SpecProbe == InitProbe /\ [][NextProbe]_vars
SpecList == InitList /\ [][NextList]_vars
SpecRaw == InitRaw /\ [][NextRaw]_vars
SpecCommands == InitCommands /\ [][NextCommands]_vars

\* print_ticket_raw calls that all start within one millisecond: every call
\* names the same temporary file
NextSameMs == \E c \in Callers : NextRawOf(c)
SpecSameMs == InitRaw /\ [][NextSameMs]_vars

\* ================================================================ claims
Range(f) == { f[i] : i \in DOMAIN f }
Count(trace, op) == Cardinality({ i \in 1..Len(trace) : trace[i].op = op })
Opened == \E i \in 1..Len(pt.trace) :
              pt.trace[i].op = "OpenPrinterW" /\ pt.trace[i].res = "ok"
Failed == { i \in 1..Len(pt.trace) : pt.trace[i].res = "fail" }
JobSteps == {"StartDocPrinterW", "StartPagePrinter", "WritePrinter"}
SpoolerOps == {"OpenPrinterW", "StartDocPrinterW", "StartPagePrinter", "WritePrinter",
               "EndPagePrinter", "EndDocPrinter", "ClosePrinter"}

\* C1: when print_ticket has returned, a handle that OpenPrinterW delivered has
\* been closed exactly once and is no longer open, and no ClosePrinter was
\* issued when OpenPrinterW failed; at no point is the handle closed twice.
C1_HandleClosedOnce ==
    /\ Count(pt.trace, "ClosePrinter") <= (IF Opened THEN 1 ELSE 0)
    /\ pt.pc = "done" =>
         /\ pt.handle # "open"
         /\ Count(pt.trace, "ClosePrinter") = (IF Opened THEN 1 ELSE 0)
         /\ Opened => pt.handle = "closed"

C1_Witness ==
    /\ pt.pc = "done"
    /\ pt.ret.kind = "err"
    /\ pt.ret.step = "StartPagePrinter"
    /\ pt.handle = "closed"

\* C2: a failed step ends print_ticket: the call has returned an error naming
\* that step with the OS error code of that step, no start-document,
\* start-page or write follows the failure, and a failed open is the only
\* spooler call of its run; a name the registry does not hold fails at the open.
C2_FailureAborts ==
    /\ \A i \in Failed :
         /\ pt.pc = "done"
         /\ pt.ret.kind = "err"
         /\ pt.ret.step = pt.trace[i].op
         /\ pt.ret.code = pt.trace[i].code
         /\ \A j \in (i + 1)..Len(pt.trace) :
              pt.trace[j].op \notin JobSteps /\ pt.trace[j].res = "ignored"
         /\ pt.trace[i].op = "OpenPrinterW" => Len(pt.trace) = 1
    /\ (pt.pc = "done" /\ ~Registered(pt.name)) =>
         /\ pt.ret.kind = "err"
         /\ pt.ret.step = "OpenPrinterW"
         /\ Len(pt.trace) = 1

C2_Witness ==
    /\ pt.pc = "done"
    /\ pt.name = <<"EPSON", "TM">>
    /\ ~Registered(pt.name)
    /\ pt.ret.kind = "err"

\* C3: print_ticket returns success only when the spooler accepted as many
\* bytes as the payload holds.
C3_SuccessNeedsFullWrite ==
    (pt.pc = "done" /\ pt.ret.kind = "ok") => pt.written = Len(pt.data)

\* C4: once a print_ticket_raw call has returned, the temporary file it
\* created is gone.
C4_TempFileDeleted ==
    \A c \in Callers :
        (raw[c].pc = "done" /\ raw[c].created) => ~files[raw[c].file].exists

\* C5: the job a print_ticket_raw call sends to its printer holds the payload
\* of that call, whatever other calls are in flight.
C5_OwnPayloadPrinted ==
    \A c \in Callers : raw[c].sent # <<>> => raw[c].sent = <<raw[c].data>>

\* C6: within one call every OS operation is attempted at most once, and a
\* call whose operation failed has returned that failure.
C6_NoRetry ==
    /\ \A op \in SpoolerOps : Count(pt.trace, op) <= 1
    /\ Failed # {} => (pt.pc = "done" /\ pt.ret.kind = "err")
    /\ \A c \in Callers :
         /\ \A op \in {"create_dir", "write", "powershell", "remove_file"} :
              Cardinality({ i \in 1..Len(raw[c].ops) : raw[c].ops[i] = op }) <= 1
         /\ (raw[c].pc = "done" /\ raw[c].out \in {"spawn_err", "exit_nonzero"}) =>
              raw[c].ret.kind = "err"
    /\ Cardinality({ i \in 1..Len(probe.ops) : probe.ops[i] = "open" }) <= 1
    /\ (probe.pc = "done" /\ probe.res \in SerialErrors) => probe.ret.kind = "err"

C6_Witness ==
    /\ pt.pc = "done"
    /\ pt.ret.kind = "err"
    /\ pt.ret.step = "WritePrinter"
    /\ Count(pt.trace, "WritePrinter") = 1

\* C7: when print_ticket returns success the spooler calls made are open,
\* start document, start page, write, end page, end document, close, once
\* each and in that order, the first six reported success, and the one write
\* was handed the whole payload.
C7_SuccessSequence ==
    (pt.pc = "done" /\ pt.ret.kind = "ok") =>
        /\ [i \in 1..Len(pt.trace) |-> pt.trace[i].op] =
             <<"OpenPrinterW", "StartDocPrinterW", "StartPagePrinter", "WritePrinter",
               "EndPagePrinter", "EndDocPrinter", "ClosePrinter">>
        /\ \A i \in 1..6 : pt.trace[i].res = "ok"
        /\ pt.req = Len(pt.data)

C7_Witness ==
    /\ pt.pc = "done"
    /\ pt.ret.kind = "ok"
    /\ Len(pt.data) = 2

\* C8: a listing command whose OS query failed, or that ran on a system with
\* no device of its kind, returned the empty sequence.
NoDevices(op) == IF op = "list_printers" THEN serial = {} ELSE registry = {}

C8_EmptyOnFailure ==
    \A op \in ListOps :
        (listed[op].called /\ (listed[op].failed \/ NoDevices(op))) =>
            listed[op].items = <<>>

C8_Witness ==
    /\ \E p \in registry : ComFilter(p)
    /\ listed["list_com_printers"].called
    /\ listed["list_com_printers"].failed
    /\ listed["list_com_printers"].items = <<>>
    /\ serial # {}
    /\ listed["list_printers"].called
    /\ listed["list_printers"].failed

\* C9 as stated: the USB-like and COM-like listings share no entry whenever no
\* registered printer has a port that matches both "usb" and "com".
BothListed ==
    /\ listed["list_usb_printers"].called
    /\ listed["list_com_printers"].called

Shared == Range(listed["list_usb_printers"].items)
              \cap Range(listed["list_com_printers"].items)

Plain(s) == \A i \in 1..Len(s) : s[i] \notin {",", Q}

UsbOrComOnly(p) ==
    ~ /\ Like(p.port, "com")
      /\ \/ Like(p.port, "usb") \/ Like(p.name, "usb")
         \/ Like(p.name, "epson") \/ Like(p.name, "receipt")

C10_ProbeResult ==
    /\ "write" \notin Range(probe.ops)
    /\ probe.pc = "done" =>
         /\ probe.ret.kind = "ok" <=> probe.res = "ok"
         /\ probe.ret.kind = "ok" => probe.ret.value = TRUE
         /\ probe.ret.kind # "ok" =>
              /\ probe.ret.kind = "err"
              /\ probe.port \in Range(probe.ret.msg)
              /\ probe.res \in Range(probe.ret.msg)
         /\ probe.handle # "open"
         /\ probe.res = "ok" => probe.ops = <<"open", "close">>

C10_Witness ==
    /\ probe.pc = "done"
    /\ probe.port = "COM7"
    /\ probe.ret.kind = "ok"
    /\ probe.handle = "released"

\* C11: a returned print_ticket_raw call reports success exactly when its
\* shell was launched and exited with status zero; a non-zero exit gives an
\* error whose text holds the captured standard error, and a shell that could
\* not be launched, or was never reached, gives an error.
C11_ShellOutcome ==
    \A c \in Callers :
        raw[c].pc = "done" =>
            /\ raw[c].ret.kind = "ok" <=> raw[c].out = "exit_zero"
            /\ raw[c].ret.kind # "ok" => raw[c].ret.kind = "err"
            /\ raw[c].out = "exit_nonzero" =>
                 raw[c].ret.msg = <<"Printing failed: ", raw[c].stderr>>
            /\ raw[c].out = "spawn_err" =>
                 raw[c].ret.msg[1] = "Failed to execute print command: "
            /\ raw[c].out = "none" => "powershell" \notin Range(raw[c].ops)

C11_Witness ==
    \E c \in Callers :
        /\ raw[c].pc = "done"
        /\ raw[c].out = "exit_nonzero"
        /\ raw[c].stderr = "Out-Printer : invalid printer"
        /\ raw[c].ret.kind = "err"

====
